---- MODULE Spec2Model ----
(***************************************************************************)
(* Model of the dataset facades of the radioactive crate                   *)
(* (src/dataset/icrp107/mod.rs, src/dataset/mod.rs) and of the HalfLife    *)
(* value type (src/nuclide/half_life.rs).                                  *)
(*                                                                         *)
(* Spec    - callers (threads) opening facades and calling the table       *)
(*           accessors and lookup operations; every accessor goes through  *)
(*           OnceCell::get_or_try_init on a static cell of its module.     *)
(* SpecHL  - HalfLife::from_str, Display, as_sec and as_lambda applied to  *)
(*           bounded inputs.                                               *)
(* SpecSched - the callers of the accessors under fair scheduling.         *)
(***************************************************************************)
EXTENDS Integers, Sequences, FiniteSets

\* ------------------------------------------------------------------ bounds
MaxThreads == 2
MaxCalls == 2
MaxLen == 4
MaxTenths == 25

Threads == 1..MaxThreads

\* ------------------------------------------------- the two facade modules
\* "icrp107" is dataset/icrp107/mod.rs (struct Icrp107), "dataset" is
\* dataset/mod.rs (struct NuclideData).  Each module owns five statics.
Mods == {"icrp107", "dataset"}
Cells == {"ndx", "rad", "bet", "ack", "nsf"}
Roots == {"A", "B"}

Nuclides == {"Co-60", "Ni-60", "Xx-1"}
NoNuclide == "-"

Icrp107Ops == Cells \cup {"check_nuclide", "progeny", "half_life", "lambda"}
NuclideDataOps == Cells \cup {"get_progeny", "get_half_life"}

OpsOf(m) == IF m = "icrp107" THEN Icrp107Ops ELSE NuclideDataOps

\* The file an accessor joins to the facade's path.
FileName(c) ==
  CASE c = "ndx" -> "ICRP-07.NDX"
    [] c = "rad" -> "ICRP-07.RAD"
    [] c = "bet" -> "ICRP-07.BET"
    [] c = "ack" -> "ICRP-07.ACK"
    [] c = "nsf" -> "ICRP-07.NSF"

\* Every lookup operation starts with self.ndx(); an accessor uses its own cell.
CellOfOp(op) == IF op \in Cells THEN op ELSE "ndx"


\* --------------------------------------------------------------- numbers
\* A decimal number m * 10^e (the f64 values of the model are short
\* decimals); Norm strips trailing zeros so that equal values are equal.
RECURSIVE Norm(_, _)
Norm(m, e) ==
  IF m = 0 THEN [m |-> 0, e |-> 0]
  ELSE IF m % 10 = 0 THEN Norm(m \div 10, e + 1)
  ELSE [m |-> m, e |-> e]

\* Products of seconds exceed 32 bits: a mantissa is a little-endian
\* sequence of base-LimbBase limbs, <<>> being zero.
LimbBase == 10000

RECURSIVE BigMulSmall(_, _, _)
BigMulSmall(L, k, carry) ==
  IF L = <<>>
  THEN (IF carry = 0 THEN <<>>
        ELSE <<carry % LimbBase>> \o BigMulSmall(<<>>, k, carry \div LimbBase))
  ELSE LET p == Head(L) * k + carry
       IN  <<p % LimbBase>> \o BigMulSmall(Tail(L), k, p \div LimbBase)

RECURSIVE BigTrim(_)
BigTrim(L) ==
  IF L = <<>> THEN <<>>
  ELSE IF L[Len(L)] = 0 THEN BigTrim(SubSeq(L, 1, Len(L) - 1))
  ELSE L

BigMul(L, k) == BigTrim(BigMulSmall(L, k, 0))

\* ----------------------------------------------------- TimeUnit, HalfLife
TimeUnits == {"MicroSecond", "MilliSecond", "Second", "Minute", "Hour", "Day", "Year"}

\* TimeUnit::as_sec: seconds per unit, as [m |-> limbs, e |-> exponent].
TimeUnit_as_sec(u) ==
  CASE u = "MicroSecond" -> [m |-> <<1>>, e |-> -6]
    [] u = "MilliSecond" -> [m |-> <<1>>, e |-> -3]
    [] u = "Second"      -> [m |-> <<1>>, e |-> 0]
    [] u = "Minute"      -> [m |-> <<60>>, e |-> 0]
    [] u = "Hour"        -> [m |-> <<3600>>, e |-> 0]
    [] u = "Day"         -> [m |-> <<6400, 8>>, e |-> 0]
    [] u = "Year"        -> [m |-> BigMul(<<2422, 365>>, 86400), e |-> -4]

\* HalfLife::as_sec: self.value * self.unit.as_sec().
HalfLife_as_sec(h) ==
  LET us == TimeUnit_as_sec(h.unit)
  IN  [m |-> BigMul(us.m, h.value.m), e |-> us.e + h.value.e]

\* HalfLife::as_lambda: ln(2) / as_sec(); an f64 division by zero is +inf.
HalfLife_as_lambda(h) ==
  LET sec == HalfLife_as_sec(h)
  IN  IF sec.m = <<>> THEN [num |-> "ln2", den |-> sec, inf |-> TRUE]
      ELSE [num |-> "ln2", den |-> sec, inf |-> FALSE]

HL(m, e, u) == [value |-> Norm(m, e), unit |-> u]

\* ------------------------------------------------------- the data on disk
\* What IndexReader::read yields for <root>/ICRP-07.NDX when it succeeds:
\* one Attribute per nuclide of the file.
IndexFile(root) ==
  IF root = "A"
  THEN [n \in {"Co-60", "Ni-60"} |->
          IF n = "Co-60"
          THEN [half_life |-> HL(527, -2, "Year"), progeny |-> <<"Ni-60">>]
          ELSE [half_life |-> HL(1, 0, "MicroSecond"), progeny |-> <<>>]]
  ELSE [n \in {"Co-60", "Xx-1"} |->
          IF n = "Co-60"
          THEN [half_life |-> HL(11, -1, "Second"), progeny |-> <<"Xx-1", "Ni-60">>]
          ELSE [half_life |-> HL(2, 0, "Hour"), progeny |-> <<>>]]

\* What SpectrumReader::read yields for a spectrum file when it succeeds:
\* per nuclide the records in file order (a record is its line number).
SpectrumFile(root, c) ==
  IF root = "A" THEN [n \in {"Co-60"} |-> <<1, 2>>]
  ELSE [n \in {"Co-60", "Xx-1"} |-> IF n = "Co-60" THEN <<2, 1>> ELSE <<3>>]

\* The table a successful read of <root>/<FileName(c)> builds.
TableOf(root, c) ==
  [root |-> root, file |-> FileName(c),
   map |-> IF c = "ndx" THEN IndexFile(root) ELSE SpectrumFile(root, c)]

\* The errors a table reader can end with: the file cannot be read, or a
\* record of it is malformed.
ReadErrors == {"StdIoError", "InvalidFloat"}

Ok(v) == [kind |-> "Ok", val |-> v]
Err(e) == [kind |-> "Err", val |-> e]


\* ------------------------------------------------------------------ state
\* The statics of the two modules are disjoint and no operation touches
\* both: a behaviour follows the callers of one module, chosen in Init.
VARIABLES
  mod,        \* the facade module the callers use
  cellState,  \* per static of mod: the OnceCell's INCOMPLETE/RUNNING/COMPLETE
  cellVal,    \* per static of mod: the OnceCell's value (NoTable: none)
  pc,         \* per thread: idle, open, enter, parked, build
  call,       \* per thread: its facade f and the accessor c it is in
  built,      \* per thread: the reader runs this call has made
  waited,     \* per thread: no, yes (this call parked), failed (on a build that failed)
  reads,      \* per static of mod: reader runs started (a read-count probe)
  fails,      \* per static of mod: reader runs that ended in an error
  ncalls,     \* the calls the callers still make (each opens its own facade)
  ret,        \* what the latest step returned to its caller (NoRet: nothing)
  hlPhase,    \* HalfLife scenario: none, text, parsed, secs, lambda, value, shown, reparsed
  hlText,     \* the text given to HalfLife::from_str or written by Display
  hlVal,      \* the HalfLife given to Display
  hlRes,      \* the result of HalfLife::from_str
  hlForm,     \* how the text was written (NoForm: not from its parts)
  hlNum       \* the result of as_sec or as_lambda of the parsed HalfLife

cacheVars == <<mod, cellState, cellVal, pc, call, built, waited, reads, fails,
               ncalls, ret>>
hlVars == <<hlPhase, hlText, hlVal, hlRes, hlForm, hlNum>>
vars == <<mod, cellState, cellVal, pc, call, built, waited, reads, fails,
          ncalls, ret, hlPhase, hlText, hlVal, hlRes, hlForm, hlNum>>

NoTable == [root |-> "-", file |-> "-", map |-> <<>>]
NoFacade == [mod |-> "-", path |-> "-"]
NoCall == [f |-> NoFacade, c |-> "-"]
NoResult == [kind |-> "-", val |-> "-"]
NoRet == [op |-> "-", n |-> NoNuclide, f |-> NoFacade, c |-> "-",
          acc |-> NoResult, res |-> NoResult, built |-> 0, waited |-> "no"]
NoHalfLife == [value |-> [m |-> 0, e |-> 0], unit |-> "-"]
NoForm == [int |-> [txt |-> <<>>, v |-> 0], frac |-> [txt |-> <<>>, v |-> 0, n |-> 0],
           exp |-> [txt |-> <<>>, v |-> 0], sp |-> <<>>, code |-> <<>>]
NoNum == [m |-> <<>>, e |-> 0]

\* -------------------------------------------- impl DecayData for Icrp107
InvalidNuclide(n) == Err([type |-> "InvalidNuclide", arg |-> n])

\* self.ndx()?.get(&nuclide).map(|_| ()).ok_or_else(InvalidNuclide)
check_nuclide(ndx, n) ==
  IF ndx.kind = "Err" THEN ndx
  ELSE IF n \in DOMAIN ndx.val.map THEN Ok("unit") ELSE InvalidNuclide(n)

\* self.ndx()?.get(&nuclide).map(|attr| attr.progeny.as_slice())
progeny(ndx, n) ==
  IF ndx.kind = "Err" THEN ndx
  ELSE IF n \in DOMAIN ndx.val.map THEN Ok(ndx.val.map[n].progeny)
  ELSE InvalidNuclide(n)

\* A variant: a half_life that reports an absent nuclide as a zero half-life.
half_life_Default(ndx, n) ==
  IF ndx.kind = "Err" THEN ndx
  ELSE IF n \in DOMAIN ndx.val.map THEN Ok(ndx.val.map[n].half_life)
  ELSE Ok(HL(0, 0, "Second"))

\* self.ndx()?.get(&nuclide).map(|attr| attr.half_life)
half_life(ndx, n) ==
  IF ndx.kind = "Err" THEN ndx
  ELSE IF n \in DOMAIN ndx.val.map THEN Ok(ndx.val.map[n].half_life)
  ELSE InvalidNuclide(n)

\* self.half_life(nuclide).map(|t| t.as_lambda())
lambda(ndx, n) ==
  LET h == half_life(ndx, n)
  IN  IF h.kind = "Err" THEN h ELSE Ok(HalfLife_as_lambda(h.val))

\* ---------------------------------------- impl DecayChain for NuclideData
Panic(e) == [kind |-> "Panic", val |-> e]
Some(v) == [kind |-> "Some", val |-> v]
None == [kind |-> "None", val |-> "-"]

\* A variant: a get_progeny that reports a nuclide without progeny as None.
get_progeny_NoneIfEmpty(ndx, n) ==
  IF ndx.kind = "Err" THEN Panic(ndx.val)
  ELSE IF n \in DOMAIN ndx.val.map /\ ndx.val.map[n].progeny # <<>>
       THEN Some(ndx.val.map[n].progeny) ELSE None

\* self.ndx().unwrap().get(nuclide).map(|attr| attr.progeny.clone())
get_progeny(ndx, n) ==
  IF ndx.kind = "Err" THEN Panic(ndx.val)
  ELSE IF n \in DOMAIN ndx.val.map THEN Some(ndx.val.map[n].progeny) ELSE None

\* self.ndx().unwrap().get(nuclide).map(|attr| attr.half_life)
get_half_life(ndx, n) ==
  IF ndx.kind = "Err" THEN Panic(ndx.val)
  ELSE IF n \in DOMAIN ndx.val.map THEN Some(ndx.val.map[n].half_life) ELSE None


\* What operation op returns, given what its accessor call returned.
Complete(op, acc, n) ==
  CASE op \in Cells          -> acc
    [] op = "check_nuclide" -> check_nuclide(acc, n)
    [] op = "progeny"       -> progeny(acc, n)
    [] op = "half_life"     -> half_life(acc, n)
    [] op = "lambda"        -> lambda(acc, n)
    [] op = "get_progeny"   -> get_progeny(acc, n)
    [] op = "get_half_life" -> get_half_life(acc, n)

\* -------------------------------------------- OnceCell::get_or_try_init
\* The fast path and the COMPLETE arm of initialize_or_wait.
IsInitialized(c) == cellState[c] = "COMPLETE"

\* A variant: a caller that does not wait for a running closure.
CanInitialize_Racing(c) == cellState[c] # "COMPLETE"

\* A variant: a caller that initializes a cell that already holds a table.
CanInitialize_Stale(c) == cellState[c] # "RUNNING"

\* The INCOMPLETE arm: the caller takes the cell and runs its closure.
CanInitialize(c) == cellState[c] = "INCOMPLETE"

\* The RUNNING arm: the caller waits for the running closure.
MustWait(c) == cellState[c] = "RUNNING"

\* The directory of the file the closure of facade f reads:
\* self.path.join(FileName(c)).
ClosureRoot(f) == f.path

\* A variant: a guard that wakes nobody.
Waiters_None(c) == {}

\* The waiters the guard wakes when the running closure ends.
Waiters(c) == {u \in Threads : pc[u] = "parked" /\ call[u].c = c}

\* A variant: a failed closure that poisons the cell.
StateAfterErr_Poisoned == "COMPLETE"

\* The state a failed closure leaves the cell in (the guard's default).
StateAfterErr == "INCOMPLETE"

\* The operations of module m whose accessor is c, with their nuclide
\* arguments: the accessor itself or, for ndx, the lookups.
OpsVia(m, c) ==
  {<<c, NoNuclide>>} \cup
  {on \in (OpsOf(m) \ Cells) \X Nuclides : CellOfOp(on[1]) = c}

\* The record of an operation's return to its caller: the operation, its
\* facade and accessor, what the accessor returned (acc) and what the
\* operation returns (res).
Returned(t, op, n, acc) ==
  [op |-> op, n |-> n, f |-> call[t].f, c |-> call[t].c, acc |-> acc,
   res |-> Complete(op, acc, n), built |-> built[t], waited |-> waited[t]]

\* ---------------------------------------------------------------- actions
Init ==
  /\ mod \in Mods
  /\ cellState = [c \in Cells |-> "INCOMPLETE"]
  /\ cellVal = [c \in Cells |-> NoTable]
  /\ pc = [t \in Threads |-> "idle"]
  /\ call = [t \in Threads |-> NoCall]
  /\ built = [t \in Threads |-> 0]
  /\ waited = [t \in Threads |-> "no"]
  /\ reads = [c \in Cells |-> 0]
  /\ fails = [c \in Cells |-> 0]
  /\ ncalls = MaxCalls
  /\ ret = NoRet
  /\ hlPhase = "none"
  /\ hlText = <<>>
  /\ hlVal = NoHalfLife
  /\ hlRes = NoResult
  /\ hlForm = NoForm
  /\ hlNum = NoNum

\* A variant: an open that reads the index file of its path.
Open_Eager(t, r) ==
  /\ pc[t] = "idle"
  /\ ncalls > 0
  /\ pc' = [pc EXCEPT ![t] = "open"]
  /\ call' = [call EXCEPT ![t] = [f |-> [mod |-> mod, path |-> r], c |-> "-"]]
  /\ ncalls' = ncalls - 1
  /\ reads' = [reads EXCEPT !["ndx"] = @ + 1]
  /\ ret' = NoRet
  /\ UNCHANGED <<mod, cellState, cellVal, built, waited, fails>>
  /\ UNCHANGED hlVars

\* Icrp107::open / NuclideData::open: Ok(Self { path }).
Open(t, r) ==
  /\ pc[t] = "idle"
  /\ ncalls > 0
  /\ pc' = [pc EXCEPT ![t] = "open"]
  /\ call' = [call EXCEPT ![t] = [f |-> [mod |-> mod, path |-> r], c |-> "-"]]
  /\ ncalls' = ncalls - 1
  /\ ret' = NoRet
  /\ UNCHANGED <<mod, cellState, cellVal, built, waited, reads, fails>>
  /\ UNCHANGED hlVars

\* A thread calls an operation of the facade it opened: accessor c, or a
\* lookup, which starts with accessor ndx.  The operation's own part and its
\* nuclide argument play no part before the accessor returns.
Call(t, c) ==
  /\ pc[t] = "open"
  /\ pc' = [pc EXCEPT ![t] = "enter"]
  /\ call' = [call EXCEPT ![t].c = c]
  /\ ret' = NoRet
  /\ UNCHANGED <<mod, ncalls, cellState, cellVal, built, waited, reads, fails>>
  /\ UNCHANGED hlVars

\* The thread's call is over: it drops its facade.
Idle(t) ==
  [pc |-> [pc EXCEPT ![t] = "idle"],
   call |-> [call EXCEPT ![t] = NoCall],
   built |-> [built EXCEPT ![t] = 0],
   waited |-> [waited EXCEPT ![t] = "no"]]

\* A variant of Hit in which a lookup does not use the cached index but
\* runs the index reader again.
Hit_Uncached(t) ==
  /\ pc[t] = "enter"
  /\ IsInitialized(call[t].c)
  /\ \E on \in OpsVia(mod, call[t].c) :
        /\ ret' = Returned(t, on[1], on[2], Ok(cellVal[call[t].c]))
        /\ reads' = IF on[1] \in Cells THEN reads
                               ELSE [reads EXCEPT ![call[t].c] = @ + 1]
  /\ pc' = Idle(t).pc
  /\ call' = Idle(t).call
  /\ built' = Idle(t).built
  /\ waited' = Idle(t).waited
  /\ UNCHANGED <<mod, cellState, cellVal, fails, ncalls>>
  /\ UNCHANGED hlVars

\* get_or_try_init finds the cell initialized: Ok(value), the closure not
\* run; the operation ends on that value.
Hit(t) ==
  /\ pc[t] = "enter"
  /\ IsInitialized(call[t].c)
  /\ \E on \in OpsVia(mod, call[t].c) :
        ret' = Returned(t, on[1], on[2], Ok(cellVal[call[t].c]))
  /\ pc' = Idle(t).pc
  /\ call' = Idle(t).call
  /\ built' = Idle(t).built
  /\ waited' = Idle(t).waited
  /\ UNCHANGED <<mod, cellState, cellVal, reads, fails, ncalls>>
  /\ UNCHANGED hlVars

\* A variant: one guard shared by the five cells of the module.
StartBuild_Shared(t) ==
  /\ pc[t] = "enter"
  /\ CanInitialize(call[t].c)
  /\ cellState' = [c \in Cells |->
                     IF cellState[c] = "INCOMPLETE" THEN "RUNNING" ELSE cellState[c]]
  /\ reads' = [reads EXCEPT ![call[t].c] = @ + 1]
  /\ built' = [built EXCEPT ![t] = @ + 1]
  /\ pc' = [pc EXCEPT ![t] = "build"]
  /\ ret' = NoRet
  /\ UNCHANGED <<mod, cellVal, call, waited, fails, ncalls>>
  /\ UNCHANGED hlVars

\* get_or_try_init finds the cell empty and idle: INCOMPLETE -> RUNNING, and
\* the caller starts its closure (the table reader).
StartBuild(t) ==
  /\ pc[t] = "enter"
  /\ CanInitialize(call[t].c)
  /\ cellState' = [cellState EXCEPT ![call[t].c] = "RUNNING"]
  /\ reads' = [reads EXCEPT ![call[t].c] = @ + 1]
  /\ built' = [built EXCEPT ![t] = @ + 1]
  /\ pc' = [pc EXCEPT ![t] = "build"]
  /\ ret' = NoRet
  /\ UNCHANGED <<mod, cellVal, call, waited, fails, ncalls>>
  /\ UNCHANGED hlVars

\* get_or_try_init finds another caller's closure running: the caller parks.
Park(t) ==
  /\ pc[t] = "enter"
  /\ MustWait(call[t].c)
  /\ pc' = [pc EXCEPT ![t] = "parked"]
  /\ waited' = [waited EXCEPT ![t] = IF @ = "no" THEN "yes" ELSE @]
  /\ ret' = NoRet
  /\ UNCHANGED <<mod, cellState, cellVal, call, built, reads, fails, ncalls>>
  /\ UNCHANGED hlVars

\* A variant: a successful closure whose guard wakes no waiter.
BuildOk_NoWake(t) ==
  /\ pc[t] = "build"
  /\ LET c == call[t].c
         tbl == TableOf(ClosureRoot(call[t].f), c)
     IN  /\ cellVal' = [cellVal EXCEPT ![c] = tbl]
         /\ cellState' = [cellState EXCEPT ![c] = "COMPLETE"]
         /\ pc' = [pc EXCEPT ![t] = "idle"]
         /\ \E on \in OpsVia(mod, c) : ret' = Returned(t, on[1], on[2], Ok(tbl))
  /\ call' = Idle(t).call
  /\ built' = Idle(t).built
  /\ waited' = Idle(t).waited
  /\ UNCHANGED <<mod, reads, fails, ncalls>>
  /\ UNCHANGED hlVars

\* The closure returns Ok(table): the value is stored, the cell is COMPLETE,
\* the waiters are woken, the caller gets Ok(&table) and its operation ends
\* on it.
BuildOk(t) ==
  /\ pc[t] = "build"
  /\ LET c == call[t].c
         tbl == TableOf(ClosureRoot(call[t].f), c)
     IN  /\ cellVal' = [cellVal EXCEPT ![c] = tbl]
         /\ cellState' = [cellState EXCEPT ![c] = "COMPLETE"]
         /\ pc' = [u \in Threads |->
                     IF u = t THEN "idle"
                     ELSE IF u \in Waiters(c) THEN "enter" ELSE pc[u]]
         /\ \E on \in OpsVia(mod, c) : ret' = Returned(t, on[1], on[2], Ok(tbl))
  /\ call' = Idle(t).call
  /\ built' = Idle(t).built
  /\ waited' = Idle(t).waited
  /\ UNCHANGED <<mod, reads, fails, ncalls>>
  /\ UNCHANGED hlVars

\* The closure returns Err(e): nothing is stored, the cell goes back to
\* INCOMPLETE, the waiters are woken (each then looks at the cell again),
\* the caller gets Err(e) and its operation ends on it.
BuildErr(t, e) ==
  /\ pc[t] = "build"
  /\ LET c == call[t].c
         acc == Err([type |-> e, arg |-> FileName(c)])
     IN  /\ cellState' = [cellState EXCEPT ![c] = StateAfterErr]
         /\ fails' = [fails EXCEPT ![c] = @ + 1]
         /\ pc' = [u \in Threads |->
                     IF u = t THEN "idle"
                     ELSE IF u \in Waiters(c) THEN "enter" ELSE pc[u]]
         /\ waited' = [u \in Threads |->
                         IF u = t THEN "no"
                         ELSE IF u \in Waiters(c) THEN "failed" ELSE waited[u]]
         /\ \E on \in OpsVia(mod, c) : ret' = Returned(t, on[1], on[2], acc)
  /\ call' = Idle(t).call
  /\ built' = Idle(t).built
  /\ UNCHANGED <<mod, cellVal, reads, ncalls>>
  /\ UNCHANGED hlVars

Next ==
  \/ \E t \in Threads, r \in Roots : Open(t, r)
  \/ \E t \in Threads, c \in Cells : Call(t, c)
  \/ \E t \in Threads : Hit(t)
  \/ \E t \in Threads : StartBuild(t)
  \/ \E t \in Threads : Park(t)
  \/ \E t \in Threads : BuildOk(t)
  \/ \E t \in Threads, e \in ReadErrors : BuildErr(t, e)

Spec == Init /\ [][Next]_vars

\* ------------------------------------------------- callers under scheduling
\* A scenario of one more call than Spec's, all on one root, by the callers
\* of NuclideData (its five accessors are, line for line, those of Icrp107,
\* each on the statics of its own module).
InitSched ==
  /\ mod = "dataset"
  /\ cellState = [c \in Cells |-> "INCOMPLETE"]
  /\ cellVal = [c \in Cells |-> NoTable]
  /\ pc = [t \in Threads |-> "idle"]
  /\ call = [t \in Threads |-> NoCall]
  /\ built = [t \in Threads |-> 0]
  /\ waited = [t \in Threads |-> "no"]
  /\ reads = [c \in Cells |-> 0]
  /\ fails = [c \in Cells |-> 0]
  /\ ncalls = MaxCalls + 1
  /\ ret = NoRet
  /\ hlPhase = "none"
  /\ hlText = <<>>
  /\ hlVal = NoHalfLife
  /\ hlRes = NoResult
  /\ hlForm = NoForm
  /\ hlNum = NoNum

\* What a thread inside an accessor does next: get_or_try_init's arms and
\* the end of the closure it runs.
Progress(t) ==
  \/ Hit(t)
  \/ StartBuild(t)
  \/ Park(t)
  \/ BuildOk(t)
  \/ BuildErr(t, "StdIoError")

NextSched ==
  \/ \E t \in Threads : Open(t, "A")
  \/ \E t \in Threads, c \in Cells : Call(t, c)
  \/ \E t \in Threads : Hit(t)
  \/ \E t \in Threads : StartBuild(t)
  \/ \E t \in Threads : Park(t)
  \/ \E t \in Threads : BuildOk(t)
  \/ \E t \in Threads : BuildErr(t, "StdIoError")

\* Every thread that is inside an accessor is scheduled again, and the
\* reader it runs terminates; nothing obliges a caller to make a call.
SpecSched ==
  InitSched /\ [][NextSched]_vars /\ \A t \in Threads : WF_vars(Progress(t))

\* ================================================= HalfLife text and Display
\* A text is a sequence of characters, each a one-character string.
Digits == <<"0", "1", "2", "3", "4", "5", "6", "7", "8", "9">>
IsAsciiDigit(ch) == \E i \in 1..10 : Digits[i] = ch
DigitVal(ch) == (CHOOSE i \in 1..10 : Digits[i] = ch) - 1

\* The pattern's \d is the Unicode class Nd: the ASCII digits and the decimal
\* digits of other scripts (here "U+0663", ARABIC-INDIC DIGIT THREE, one
\* character).
IsDigit(ch) == IsAsciiDigit(ch) \/ ch = "U+0663"

\* The character at position i of s ("" past the end).
At(s, i) == IF i >= 1 /\ i <= Len(s) THEN s[i] ELSE ""

\* The number of characters of \d that s has from position i on.
RECURSIVE DigitRun(_, _)
DigitRun(s, i) == IF IsDigit(At(s, i)) THEN 1 + DigitRun(s, i + 1) ELSE 0

\* The number of ASCII digits that s has from position i on.
RECURSIVE AsciiRun(_, _)
AsciiRun(s, i) == IF IsAsciiDigit(At(s, i)) THEN 1 + AsciiRun(s, i + 1) ELSE 0

\* The value of the digits s[i .. i+n-1], after acc.
RECURSIVE DigitsToInt(_, _, _, _)
DigitsToInt(s, i, n, acc) ==
  IF n = 0 THEN acc ELSE DigitsToInt(s, i + 1, n - 1, acc * 10 + DigitVal(s[i]))

\* A variant: an alternation that tries m, h, d, y before [um]?s.
UnitLenAt_Short(s, p) ==
  IF At(s, p) \in {"m", "h", "d", "y"} THEN 1
  ELSE IF At(s, p) = "u" /\ At(s, p + 1) = "s" THEN 2
  ELSE IF At(s, p) = "s" THEN 1
  ELSE 0

\* The unit alternation (?:[um]?s)|m|h|d|y at position p: the length of the
\* first alternative that matches, 0 if none does.
UnitLenAt(s, p) ==
  IF At(s, p) \in {"u", "m"} /\ At(s, p + 1) = "s" THEN 2
  ELSE IF At(s, p) \in {"s", "m", "h", "d", "y"} THEN 1
  ELSE 0

\* The ways (?:[Ee][+-]?\d+)? matches at p: <<taken, sign, digits, end>>.
ExpMatches(s, p) ==
  {<<0, 0, 0, p>>} \cup
  (IF At(s, p) \in {"e", "E"}
   THEN UNION {{<<1, sg, n, p + 1 + sg + n>> : n \in 1..DigitRun(s, p + 1 + sg)} :
                 sg \in (IF At(s, p + 1) \in {"+", "-"} THEN {0, 1} ELSE {0})}
   ELSE {})

\* The ways the value group \d+\.?(?:\d+)?(?:[Ee][+-]?\d+)? matches at i, each
\* with the choices made, in the order the pattern makes them, and its end.
ValueMatches(s, i) ==
  UNION {UNION {UNION {{[key |-> <<n1, dot, n2, x[1], x[2], x[3]>>, vend |-> x[4]] :
                          x \in ExpMatches(s, i + n1 + dot + n2)} :
                       n2 \in 0..DigitRun(s, i + n1 + dot)} :
                dot \in (IF At(s, i + n1) = "." THEN {0, 1} ELSE {0})} :
         n1 \in 1..DigitRun(s, i)}

\* The matches of the whole pattern at i: a value, (?:\s?), a unit.
MatchesAt(s, i) ==
  UNION {{[key |-> v.key \o <<sp>>, vend |-> v.vend, ustart |-> v.vend + sp,
           uend |-> v.vend + sp + UnitLenAt(s, v.vend + sp)] :
            sp \in {k \in (IF At(s, v.vend) = " " THEN {0, 1} ELSE {0}) :
                      UnitLenAt(s, v.vend + k) > 0}} :
         v \in ValueMatches(s, i)}

\* Every choice of the pattern is greedy: of two matches at one position the
\* engine reports the one whose first differing choice is the larger.
RECURSIVE Preferred(_, _, _)
Preferred(a, b, k) ==
  IF k > Len(a) THEN TRUE
  ELSE IF a[k] # b[k] THEN a[k] > b[k]
  ELSE Preferred(a, b, k + 1)

BestAt(s, i) ==
  CHOOSE x \in MatchesAt(s, i) : \A y \in MatchesAt(s, i) : Preferred(x.key, y.key, 1)

\* re.captures(s) searches the text: the positions where the pattern matches.
MatchStarts(s) == {i \in 1..Len(s) : MatchesAt(s, i) # {}}

\* re.captures(s): the leftmost match, its value and unit texts.
Captures(s) ==
  IF MatchStarts(s) = {} THEN [found |-> FALSE, value |-> <<>>, unit |-> <<>>]
  ELSE LET i == CHOOSE j \in MatchStarts(s) : \A k \in MatchStarts(s) : j <= k
           b == BestAt(s, i)
       IN  [found |-> TRUE,
            value |-> SubSeq(s, i, b.vend - 1),
            unit |-> SubSeq(s, b.ustart, b.uend - 1)]

\* str::parse::<f64>: digits, an optional point and digits, an optional
\* exponent; anything else is an error.
ParseF64(txt) ==
  LET n1 == AsciiRun(txt, 1)
      dot == IF At(txt, n1 + 1) = "." THEN 1 ELSE 0
      n2 == IF dot = 1 THEN AsciiRun(txt, n1 + 2) ELSE 0
      p == n1 + dot + n2 + 1
      ex == IF At(txt, p) \in {"e", "E"} THEN 1 ELSE 0
      sg == IF ex = 1 /\ At(txt, p + 1) \in {"+", "-"} THEN 1 ELSE 0
      n3 == IF ex = 1 THEN AsciiRun(txt, p + 1 + sg) ELSE 0
      expo == LET a == DigitsToInt(txt, p + 1 + sg, n3, 0)
              IN  IF sg = 1 /\ At(txt, p + 1) = "-" THEN 0 - a ELSE a
  IN  IF n1 + n2 = 0 \/ (ex = 1 /\ n3 = 0) \/ p + ex + sg + n3 # Len(txt) + 1
      THEN Err([type |-> "ParseFloatError", arg |-> txt])
      ELSE Ok(Norm(DigitsToInt(txt, n1 + 2, n2, DigitsToInt(txt, 1, n1, 0)), expo - n2))

\* str::parse::<TimeUnit> (the serde names of the enum).
ParseTimeUnit(txt) ==
  CASE txt = <<"u", "s">> -> Ok("MicroSecond")
    [] txt = <<"m", "s">> -> Ok("MilliSecond")
    [] txt = <<"s">>      -> Ok("Second")
    [] txt = <<"m">>      -> Ok("Minute")
    [] txt = <<"h">>      -> Ok("Hour")
    [] txt = <<"d">>      -> Ok("Day")
    [] txt = <<"y">>      -> Ok("Year")
    [] OTHER              -> Err([type |-> "UnknownVariant", arg |-> txt])

\* HalfLife::from_str.
HalfLife_from_str(s) ==
  LET cap == Captures(s)
      value == ParseF64(cap.value)
      unit == ParseTimeUnit(cap.unit)
  IN  IF ~cap.found THEN Err([type |-> "InvalidHalfLife", arg |-> s])
      ELSE IF value.kind = "Err" THEN Panic(value.val)
      ELSE IF unit.kind = "Err" THEN Panic(unit.val)
      ELSE Ok([value |-> value.val, unit |-> unit.val])

\* impl Display for TimeUnit; "U+03BC" is the one character GREEK SMALL
\* LETTER MU.
TimeUnit_Display(u) ==
  CASE u = "MicroSecond" -> <<"U+03BC", "s">>
    [] u = "MilliSecond" -> <<"m", "s">>
    [] u = "Second"      -> <<"s">>
    [] u = "Minute"      -> <<"m">>
    [] u = "Hour"        -> <<"h">>
    [] u = "Day"         -> <<"d">>
    [] u = "Year"        -> <<"y">>

\* The decimal digits of a natural number.
RECURSIVE IntToText(_)
IntToText(k) ==
  IF k < 10 THEN <<Digits[k + 1]>> ELSE IntToText(k \div 10) \o <<Digits[(k % 10) + 1]>>

RECURSIVE Pow10(_)
Pow10(e) == IF e = 0 THEN 1 ELSE 10 * Pow10(e - 1)

\* PrettyPrintFloat(v).to_string() of a value with at most one decimal: the
\* integer part, a point, one decimal ("1.0", "10.0", "1.1").
PrettyPrintFloat(v) ==
  IF v.e < 0
  THEN IntToText(v.m \div 10) \o <<".", Digits[(v.m % 10) + 1]>>
  ELSE IntToText(v.m * Pow10(v.e)) \o <<".", "0">>

\* A variant: a Display that keeps the ".0" of a whole number.
StripSuffix_Keep(txt) == txt

\* number_str.strip_suffix(".0").
StripSuffix(txt) ==
  IF Len(txt) >= 2 /\ SubSeq(txt, Len(txt) - 1, Len(txt)) = <<".", "0">>
  THEN SubSeq(txt, 1, Len(txt) - 2)
  ELSE txt

\* impl Display for HalfLife: "{} {}" of the number and the unit.
HalfLife_Display(h) ==
  StripSuffix(PrettyPrintFloat(h.value)) \o <<" ">> \o TimeUnit_Display(h.unit)

\* The texts given to from_str and the values given to Display.
Alphabet == {"0", "1", "U+0663", ".", "e", " ", "-", "u", "m", "s", "x"}
Texts == UNION {[1..n -> Alphabet] : n \in 0..MaxLen}
HalfLives == {[value |-> Norm(k, -1), unit |-> u] : k \in 1..MaxTenths, u \in TimeUnits}

\* Texts written as a number and a unit code: the integer digits, the
\* fraction (nothing, a point, or a point and digits), the exponent, at most
\* one space, and the code; each part with the number it stands for.
IntParts == {[txt |-> <<"0">>, v |-> 0], [txt |-> <<"1">>, v |-> 1],
             [txt |-> <<"1", "0">>, v |-> 10], [txt |-> <<"5", "2", "7">>, v |-> 527]}
FracParts == {[txt |-> <<>>, v |-> 0, n |-> 0], [txt |-> <<".">>, v |-> 0, n |-> 0],
              [txt |-> <<".", "1">>, v |-> 1, n |-> 1],
              [txt |-> <<".", "0", "5">>, v |-> 5, n |-> 2]}
ExpParts == {[txt |-> <<>>, v |-> 0], [txt |-> <<"e", "1">>, v |-> 1],
             [txt |-> <<"E", "+", "2">>, v |-> 2], [txt |-> <<"e", "-", "1">>, v |-> -1]}
Spaces == {<<>>, <<" ">>}
UnitCodes == {<<"u", "s">>, <<"m", "s">>, <<"s">>, <<"m">>, <<"h">>, <<"d">>, <<"y">>}
Forms == [int : IntParts, frac : FracParts, exp : ExpParts, sp : Spaces, code : UnitCodes]
FormText(f) == f.int.txt \o f.frac.txt \o f.exp.txt \o f.sp \o f.code

InitHL ==
  /\ mod = "icrp107"
  /\ cellState = [c \in Cells |-> "INCOMPLETE"]
  /\ cellVal = [c \in Cells |-> NoTable]
  /\ pc = [t \in Threads |-> "idle"]
  /\ call = [t \in Threads |-> NoCall]
  /\ built = [t \in Threads |-> 0]
  /\ waited = [t \in Threads |-> "no"]
  /\ reads = [c \in Cells |-> 0]
  /\ fails = [c \in Cells |-> 0]
  /\ ncalls = 0
  /\ ret = NoRet
  /\ hlRes = NoResult
  /\ hlNum = NoNum
  /\ \/ hlPhase = "text" /\ hlText \in Texts /\ hlVal = NoHalfLife /\ hlForm = NoForm
     \/ hlPhase = "text" /\ hlForm \in Forms /\ hlText = FormText(hlForm)
          /\ hlVal = NoHalfLife
     \/ hlPhase = "value" /\ hlText = <<>> /\ hlVal \in HalfLives /\ hlForm = NoForm

\* s.parse::<HalfLife>() of a given text, or of the text Display wrote.
FromStr ==
  /\ hlPhase \in {"text", "shown"}
  /\ hlRes' = HalfLife_from_str(hlText)
  /\ hlPhase' = IF hlPhase = "text" THEN "parsed" ELSE "reparsed"
  /\ UNCHANGED <<hlText, hlVal, hlForm, hlNum>>
  /\ UNCHANGED cacheVars

\* h.to_string().
Display ==
  /\ hlPhase = "value"
  /\ hlText' = HalfLife_Display(hlVal)
  /\ hlPhase' = "shown"
  /\ UNCHANGED <<hlVal, hlRes, hlForm, hlNum>>
  /\ UNCHANGED cacheVars

\* h.as_sec() of a HalfLife that from_str returned.
AsSec ==
  /\ hlPhase = "parsed"
  /\ hlRes.kind = "Ok"
  /\ hlNum' = HalfLife_as_sec(hlRes.val)
  /\ hlPhase' = "secs"
  /\ UNCHANGED <<hlText, hlVal, hlRes, hlForm>>
  /\ UNCHANGED cacheVars

\* h.as_lambda() of a HalfLife that from_str returned.
AsLambda ==
  /\ hlPhase = "parsed"
  /\ hlRes.kind = "Ok"
  /\ hlNum' = HalfLife_as_lambda(hlRes.val)
  /\ hlPhase' = "lambda"
  /\ UNCHANGED <<hlText, hlVal, hlRes, hlForm>>
  /\ UNCHANGED cacheVars

NextHL == FromStr \/ Display \/ AsSec \/ AsLambda

SpecHL == InitHL /\ [][NextHL]_vars

\* ================================================================= claims
LookupOps == (Icrp107Ops \cup NuclideDataOps) \ Cells
Builders(c) == {t \in Threads : pc[t] = "build" /\ call[t].c = c}


\* C1: while no build of a cell has failed, its table reader has run at most
\* once however many callers raced the first call (never two reads at once,
\* never a second read), a populated cell has had exactly one successful
\* read, and every caller of the accessor is returned the cell's one table.
C1_OneBuildOneTable ==
  \A c \in Cells :
    /\ Cardinality(Builders(c)) <= 1
    /\ fails[c] = 0 => reads[c] <= 1
    /\ cellState[c] = "COMPLETE" => reads[c] = fails[c] + 1
    /\ (ret.c = c /\ ret.acc.kind = "Ok") =>
         /\ cellState[c] = "COMPLETE"
         /\ ret.acc.val = cellVal[c]

\* C1 witness: a caller that parked behind the first build of a cell is
\* served the table, the reader having run once.
C1_Witness ==
  /\ ret.op \in Cells
  /\ ret.res.kind = "Ok"
  /\ ret.waited = "yes"
  /\ ret.built = 0
  /\ reads[ret.c] = 1

C3_Step ==
  /\ \A c \in Cells : cellState[c] # "COMPLETE" => cellVal[c] = NoTable
  /\ \A c \in Cells :
       fails'[c] > fails[c] =>
         /\ ret'.acc.kind = "Err"
         /\ ret'.acc.val.type \in ReadErrors
         /\ ret'.op \in Cells => ret'.res = ret'.acc
         /\ cellState'[c] = "INCOMPLETE"
         /\ cellVal'[c] = NoTable
  /\ \A t \in Threads :
       (pc[t] = "enter" /\ pc'[t] # "enter" /\ cellState[call[t].c] = "INCOMPLETE") =>
         /\ pc'[t] = "build"
         /\ reads'[call[t].c] = reads[call[t].c] + 1
  /\ \A t \in Threads :
       (pc[t] = "build" /\ pc'[t] = "idle" /\ fails' = fails) =>
         /\ cellState'[call[t].c] = "COMPLETE"
         /\ cellVal'[call[t].c] = TableOf(call[t].f.path, call[t].c)
         /\ ret'.acc = Ok(cellVal'[call[t].c])
         /\ ret'.op \in Cells => ret'.res = ret'.acc

C3_FailureLeavesCellEmpty == [][C3_Step]_vars

\* C3 witness: after a failed build of a cell a later call built and cached
\* the table.
C3_Witness ==
  /\ ret.op \in Cells
  /\ ret.res.kind = "Ok"
  /\ ret.built = 1
  /\ fails[ret.c] >= 1
  /\ cellState[ret.c] = "COMPLETE"

\* C4: a populated cell stays populated with the same table: no step
\* changes its state or value or runs its reader, and a call that finds it
\* populated is returned that table without a read.
C4_Step ==
  /\ \A c \in Cells :
       cellState[c] = "COMPLETE" =>
         /\ cellState'[c] = "COMPLETE"
         /\ cellVal'[c] = cellVal[c]
         /\ reads'[c] = reads[c]
         /\ cellVal[c] # NoTable
  /\ \A t \in Threads :
       (pc[t] = "enter" /\ pc'[t] # "enter" /\ cellState[call[t].c] = "COMPLETE") =>
         /\ pc'[t] = "idle"
         /\ ret'.acc = Ok(cellVal[call[t].c])
         /\ ret'.built = 0

C4_PopulatedCellIsImmutable == [][C4_Step]_vars

\* C4 witness: a call was served from a populated cell.
C4_Witness ==
  /\ ret.op \in Cells
  /\ ret.res.kind = "Ok"
  /\ ret.built = 0
  /\ ret.waited = "no"
  /\ cellState[ret.c] = "COMPLETE"

\* C5 (as claimed): a successful accessor call returns the table built from
\* the root of the facade it was called on.
C5_TableOfOwnRoot ==
  (ret.op \in Cells /\ ret.res.kind = "Ok") => ret.res.val.root = ret.f.path

\* C6: with the index table loaded, a lookup of Icrp107 returns
\* InvalidNuclide exactly when its nuclide is absent from the table;
\* otherwise check_nuclide succeeds, progeny and half_life return the
\* record's progeny and half-life, and lambda its decay constant.
C6_LookupsFollowIndex ==
  (ret.op \in Icrp107Ops \ Cells /\ ret.acc.kind = "Ok") =>
    LET T == cellVal["ndx"].map
    IN  /\ cellState["ndx"] = "COMPLETE"
        /\ (ret.res.kind = "Err") = (ret.n \notin DOMAIN T)
        /\ ret.res.kind \in {"Ok", "Err"}
        /\ ret.res.kind = "Err" => ret.res.val = [type |-> "InvalidNuclide", arg |-> ret.n]
        /\ ret.res.kind = "Ok" =>
             CASE ret.op = "check_nuclide" -> ret.res.val = "unit"
               [] ret.op = "progeny"       -> ret.res.val = T[ret.n].progeny
               [] ret.op = "half_life"     -> ret.res.val = T[ret.n].half_life
               [] ret.op = "lambda"        ->
                    /\ ret.res.val.num = "ln2"
                    /\ ret.res.val.den = HalfLife_as_sec(T[ret.n].half_life)
                    /\ ~ret.res.val.inf

\* C6 witness: lambda of a nuclide of the loaded index table returned.
C6_Witness ==
  /\ ret.op = "lambda"
  /\ ret.res.kind = "Ok"
  /\ ret.n = "Co-60"

\* C7: a lookup goes through the index cell only: the step on which it
\* returns leaves the four spectrum cells alone, it runs the index reader
\* only when it found the index cell empty, and once the index cell is
\* populated neither a lookup nor ndx() loads it again.
C7_Step ==
  \A t \in Threads :
    (pc[t] \in {"enter", "build"} /\ pc'[t] = "idle" /\ ret'.op \in LookupOps) =>
      /\ call[t].c = "ndx"
      /\ ret'.c = "ndx"
      /\ \A c \in Cells \ {"ndx"} :
           /\ cellState'[c] = cellState[c]
           /\ cellVal'[c] = cellVal[c]
           /\ reads'[c] = reads[c]
      /\ reads'["ndx"] = reads["ndx"]
      /\ ret'.built = (IF pc[t] = "build" THEN 1 ELSE 0)
      /\ pc[t] = "enter" => cellState["ndx"] = "COMPLETE"

C7_LookupsShareIndexCell ==
  [][C7_Step /\ (cellState["ndx"] = "COMPLETE" => reads'["ndx"] = reads["ndx"])]_vars

\* C7 witness: a lookup was served from the populated index cell.
C7_Witness ==
  /\ ret.op = "check_nuclide"
  /\ ret.built = 0
  /\ ret.res.kind = "Ok"
  /\ reads["ndx"] = 1

\* C8 (as claimed): a lookup whose index load failed returns the reader's
\* error unchanged.
C8_LoadErrorForwarded ==
  (ret.op \in LookupOps /\ ret.acc.kind = "Err") => ret.res = ret.acc

\* The text is a number, optional whitespace and a unit code, and nothing else.
IsHalfLifeText(s) == \E x \in MatchesAt(s, 1) : x.uend = Len(s) + 1

\* C9 (as claimed): from_str succeeds only on a text that is entirely a
\* number, optional whitespace and a unit code; on every other text it fails
\* with InvalidHalfLife carrying the text.
C9_OnlyWholeTextParses ==
  (hlPhase = "parsed" /\ ~IsHalfLifeText(hlText)) =>
    hlRes = Err([type |-> "InvalidHalfLife", arg |-> hlText])

\* C10 (as claimed): Display then from_str gives back the unit and the value.
C10_DisplayRoundTrip ==
  hlPhase = "reparsed" =>
    /\ hlRes.kind = "Ok"
    /\ hlRes.val.unit = hlVal.unit
    /\ hlRes.val.value = hlVal.value

\* m * 10^k of a limb sequence.
RECURSIVE BigScale(_, _)
BigScale(L, k) == IF k = 0 THEN L ELSE BigScale(BigMul(L, 10), k - 1)

\* Two decimals [m |-> limbs, e |-> exponent] are the same number.
SameNumber(a, b) ==
  LET lo == IF a.e < b.e THEN a.e ELSE b.e
  IN  BigScale(a.m, a.e - lo) = BigScale(b.m, b.e - lo)

\* The number a form's digits, fraction and exponent stand for.
FormValue(f) == Norm(f.int.v * Pow10(f.frac.n) + f.frac.v, f.exp.v - f.frac.n)

\* The time unit a unit code names.
FormUnit(code) ==
  CASE code = <<"u", "s">> -> "MicroSecond"
    [] code = <<"m", "s">> -> "MilliSecond"
    [] code = <<"s">>      -> "Second"
    [] code = <<"m">>      -> "Minute"
    [] code = <<"h">>      -> "Hour"
    [] code = <<"d">>      -> "Day"
    [] code = <<"y">>      -> "Year"

\* The conversion table: seconds per unit (a year is 31556926.08 s).
UnitSeconds(u) ==
  CASE u = "MicroSecond" -> [m |-> <<1>>, e |-> -6]
    [] u = "MilliSecond" -> [m |-> <<1>>, e |-> -3]
    [] u = "Second"      -> [m |-> <<1>>, e |-> 0]
    [] u = "Minute"      -> [m |-> <<6>>, e |-> 1]
    [] u = "Hour"        -> [m |-> <<36>>, e |-> 2]
    [] u = "Day"         -> [m |-> <<864>>, e |-> 2]
    [] u = "Year"        -> [m |-> <<2608, 5569, 31>>, e |-> -2]

\* C11: a text written as a number, at most one space and one of the seven
\* unit codes parses to the number's value and the unit the whole code
\* names, and as_sec of the result is the value times the table entry.
C11_FormsParseToTable ==
  (hlForm.code # <<>> /\ hlPhase \in {"parsed", "secs", "lambda"}) =>
    LET v == FormValue(hlForm)
        u == FormUnit(hlForm.code)
    IN  /\ hlRes = Ok([value |-> v, unit |-> u])
        /\ hlPhase = "secs" =>
             SameNumber(hlNum, [m |-> BigMul(UnitSeconds(u).m, v.m),
                                e |-> UnitSeconds(u).e + v.e])

\* C11 witness: as_sec of "10y" (and of "1.1 ms") was taken.
C11_Witness ==
  /\ hlPhase = "secs"
  /\ hlText \in {<<"1", "0", "y">>, <<"1", ".", "1", " ", "m", "s">>}
  /\ hlForm.code # <<>>
  /\ hlNum.m # <<>>

\* C12 (as claimed): a HalfLife that from_str returned has a value above
\* zero, its as_sec is above zero and its as_lambda did not divide by zero.
C12_ParsedValuePositive ==
  /\ (hlPhase \in {"parsed", "reparsed"} /\ hlRes.kind = "Ok") => hlRes.val.value.m > 0
  /\ hlPhase = "secs" => hlNum.m # <<>>
  /\ hlPhase = "lambda" => ~hlNum.inf

\* The value text of Display: the digits of a whole number, or the integer
\* digits, a point and the decimal.
ValueText(v) ==
  IF v.e >= 0 THEN IntToText(v.m * Pow10(v.e))
  ELSE IntToText(v.m \div 10) \o <<".">> \o IntToText(v.m % 10)

\* The unit symbols of Display.
UnitSymbol(u) ==
  CASE u = "MicroSecond" -> <<"U+03BC", "s">>
    [] u = "MilliSecond" -> <<"m", "s">>
    [] u = "Second"      -> <<"s">>
    [] u = "Minute"      -> <<"m">>
    [] u = "Hour"        -> <<"h">>
    [] u = "Day"         -> <<"d">>
    [] u = "Year"        -> <<"y">>

\* C14: Display writes the value text, exactly one space and the unit
\* symbol; the value text of a whole number has no ".0" (no point at all).
C14_DisplayForm ==
  hlPhase \in {"shown", "reparsed"} =>
    /\ hlText = ValueText(hlVal.value) \o <<" ">> \o UnitSymbol(hlVal.unit)
    /\ Cardinality({i \in 1..Len(hlText) : hlText[i] = " "}) = 1
    /\ hlVal.value.e >= 0 => \A i \in 1..Len(hlText) : hlText[i] # "."
    /\ \A i \in 1..Len(hlText) - 2 :
         ~(hlText[i] = "." /\ hlText[i + 1] = "0" /\ hlText[i + 2] = " ")

\* C14 witness: a whole number of microseconds was displayed, "2 <mu>s".
C14_Witness ==
  /\ hlPhase = "shown"
  /\ hlVal = [value |-> [m |-> 2, e |-> 0], unit |-> "MicroSecond"]
  /\ hlText = <<"2", " ", "U+03BC", "s">>

\* C18 (as claimed): from_str returns Ok or InvalidHalfLife for every text;
\* neither of its conversions of the captured texts fails.
C18_FromStrNeverPanics ==
  hlPhase \in {"parsed", "reparsed"} =>
    \/ hlRes.kind = "Ok"
    \/ hlRes = Err([type |-> "InvalidHalfLife", arg |-> hlText])

\* What a step may change of cell c.
CellChanged(c) ==
  \/ cellState'[c] # cellState[c]
  \/ cellVal'[c] # cellVal[c]
  \/ reads'[c] # reads[c]
  \/ fails'[c] # fails[c]

\* C15: a step changes at most one cell, the cell of the accessor call that
\* takes the step; it moves only callers of that cell; and a caller that
\* finds its cell empty can start its build whatever the state of the other
\* four cells.
C15_Step ==
  /\ \A c \in Cells :
       CellChanged(c) =>
         /\ \E t \in Threads :
              call[t].c = c /\ pc[t] \in {"enter", "build"} /\ pc'[t] # pc[t]
         /\ \A d \in Cells \ {c} : ~CellChanged(d)
  /\ \A t \in Threads :
       (pc[t] \in {"enter", "build"} /\ pc'[t] # pc[t]) =>
         \A u \in Threads \ {t} : pc'[u] # pc[u] => call[u].c = call[t].c
  /\ \A t \in Threads :
       (pc[t] = "enter" /\ cellState[call[t].c] = "INCOMPLETE") => ENABLED StartBuild(t)

C15_CellsIndependent == [][C15_Step]_vars

\* C15 witness: a table was built and returned while the load of another
\* cell was pending.
C15_Witness ==
  /\ ret.op \in Cells
  /\ ret.res.kind = "Ok"
  /\ ret.built = 1
  /\ \E d \in Cells \ {ret.c} : cellState[d] = "RUNNING"

\* C16: open of any path succeeds whatever the cells hold, returns a facade
\* of that path, runs no reader and changes no cell; a reader's error is
\* returned only by an accessor call that ran the build.
C16_Step ==
  /\ \A t \in Threads :
       (pc[t] = "idle" /\ pc'[t] # "idle") =>
         /\ pc'[t] = "open"
         /\ call'[t].f.mod = mod
         /\ call'[t].f.path \in Roots
         /\ call'[t].c = "-"
         /\ ret' = NoRet
         /\ \A c \in Cells : ~CellChanged(c)
  /\ \A t \in Threads, r \in Roots :
       (pc[t] = "idle" /\ ncalls > 0) => ENABLED Open(t, r)
  /\ ret'.acc.kind = "Err" =>
       /\ ret'.built = 1
       /\ \E t \in Threads : pc[t] = "build" /\ pc'[t] = "idle" /\ call[t].f = ret'.f

C16_OpenIsLazy == [][C16_Step]_vars

\* C16 witness: a facade was opened on a path whose file cannot be read;
\* its first accessor call ran the one read there has been and returned the
\* error.
C16_Witness ==
  /\ ret.op \in Cells
  /\ ret.res.kind = "Err"
  /\ ret.res.val.type = "StdIoError"
  /\ ret.built = 1
  /\ ncalls = MaxCalls - 1
  /\ reads[ret.c] = 1

\* C17: on one loaded index table the lookups of the two facades agree:
\* get_half_life is Some(h) exactly when half_life is Ok(h) and None exactly
\* when it is InvalidNuclide; get_progeny is Some(p) exactly when progeny is
\* Ok(p), the same sequence.
C17_FacadesAgree ==
  (ret.op \in LookupOps /\ ret.acc.kind = "Ok") =>
    /\ ret.op = "get_half_life" =>
         LET r == half_life(ret.acc, ret.n)
         IN  /\ ret.res.kind \in {"Some", "None"}
             /\ (ret.res.kind = "Some") = (r.kind = "Ok")
             /\ ret.res.kind = "Some" => r.val = ret.res.val
             /\ (ret.res.kind = "None") = (r = InvalidNuclide(ret.n))
    /\ ret.op = "half_life" =>
         LET r == get_half_life(ret.acc, ret.n)
         IN  /\ (ret.res.kind = "Ok") = (r.kind = "Some")
             /\ ret.res.kind = "Ok" => r.val = ret.res.val
             /\ (ret.res = InvalidNuclide(ret.n)) = (r.kind = "None")
    /\ ret.op = "get_progeny" =>
         LET r == progeny(ret.acc, ret.n)
         IN  /\ ret.res.kind \in {"Some", "None"}
             /\ (ret.res.kind = "Some") = (r.kind = "Ok")
             /\ ret.res.kind = "Some" => r.val = ret.res.val
    /\ ret.op = "progeny" =>
         LET r == get_progeny(ret.acc, ret.n)
         IN  /\ (ret.res.kind = "Ok") = (r.kind = "Some")
             /\ ret.res.kind = "Ok" => r.val = ret.res.val

\* C17 witness: get_progeny returned the two progeny of a nuclide in the
\* order of the index record.
C17_Witness ==
  /\ ret.op = "get_progeny"
  /\ ret.res = Some(<<"Xx-1", "Ni-60">>)

C13_Step ==
  /\ \A t \in Threads :
       pc[t] = "parked" =>
         /\ cellState[call[t].c] = "RUNNING"
         /\ \E b \in Threads : pc[b] = "build" /\ call[b].c = call[t].c
  /\ \A b \in Threads :
       (pc[b] = "build" /\ pc'[b] # "build") =>
         \A t \in Threads : (pc[t] = "parked" /\ call[t].c = call[b].c) => pc'[t] = "enter"
  /\ \A t \in Threads :
       (pc[t] = "enter" /\ pc'[t] # "enter") =>
         CASE cellState[call[t].c] = "COMPLETE"   -> pc'[t] = "idle" /\ ret'.acc.kind = "Ok"
           [] cellState[call[t].c] = "INCOMPLETE" -> pc'[t] = "build"
           [] cellState[call[t].c] = "RUNNING"    ->
                /\ pc'[t] = "parked"
                /\ \E b \in Threads \ {t} : pc[b] = "build" /\ call[b].c = call[t].c

====
